---------------------------- MODULE Spec2Model ----------------------------
(***************************************************************************)
(* Field comparison and scoring engine of the flight-agent evaluation      *)
(* pipeline: compareField / compareAllFields / flagForReview of            *)
(* eval-final.js, isSameFamily of lib/aircraft-utils.js and the metrics of *)
(* lib/metrics.js, with the runner of eval-v2-judge.js and the            *)
(* comparison functions of eval.js for the agreement of the variants.      *)
(*                                                                         *)
(* Five specifications share the variables:                                *)
(*   SpecField  one call of compareField on enumerated arguments;          *)
(*   SpecBatch  a batch of cases built by compareAllFields/flagForReview   *)
(*              and reduced by calculateAllMetrics/getSummaryStats;        *)
(*   SpecFlag   one call of flagForReview on the result object of one     *)
(*              case;                                                      *)
(*   Spec       runEvaluation: the loop over the test cases, then the      *)
(*              summary metrics;                                           *)
(*   SpecV2     runEvaluation of eval-v2-judge.js.                         *)
(*                                                                         *)
(* JavaScript values are tagged records: [t |-> "null"],                   *)
(* [t |-> "undefined"], [t |-> "string", v |-> s],                         *)
(* [t |-> "number", v |-> q] (q an exact rational), [t |-> "NaN"],         *)
(* [t |-> "Infinity"], [t |-> "boolean", v |-> b].  A call completes       *)
(* either by returning a value or by throwing.                             *)
(***************************************************************************)
EXTENDS Integers, Sequences, FiniteSets, TLC

VARIABLES
    pc,           \* position of the caller: call/returned, collect/reported,
                  \* call/flagged, loop/done
    field,        \* compareField: argument `field`
    extracted,    \* compareField: argument `extracted`
    groundTruth,  \* compareField: argument `groundTruth`
    ret,          \* completion of the last call (compareField; flagForReview;
                  \* the try block)
    results,      \* the batch: one result object per evaluation case
    metrics,      \* what calculateAllMetrics returned, once called
    summary,      \* what getSummaryStats returned, once called
    testDataset,  \* runEvaluation: the test cases of the run
    i             \* runEvaluation: the loop index (test cases processed)

vars == <<pc, field, extracted, groundTruth, ret, results, metrics, summary,
          testDataset, i>>

---------------------------------------------------------------------------
(* Bounds of the model *)

\* time strings HH:MM are enumerated for HH in 0..MaxHour, MM in 0..59
MaxHour == 1

\* a batch holds at most MaxCases evaluation cases
MaxCases == 3

\* a run of runEvaluation has at most MaxTests test cases
MaxTests == 2

---------------------------------------------------------------------------
(* Exact rationals n/d, d > 0, in lowest terms (JavaScript numbers).  A    *)
(* division by zero gives d = 0: n/0 with n # 0 is an infinity, 0/0 is NaN. *)

RECURSIVE GCD(_, _)
GCD(a, b) == IF b = 0 THEN a ELSE GCD(b, a % b)

Abs(n) == IF n < 0 THEN -n ELSE n

Rat(n, d) ==
    LET g == IF n = 0 /\ d = 0 THEN 1 ELSE GCD(Abs(n), Abs(d))
        s == IF d < 0 THEN -1 ELSE 1
    IN [n |-> (s * n) \div g, d |-> (s * d) \div g]

RatInt(n) == [n |-> n, d |-> 1]
RatAdd(p, q) == Rat(p.n * q.d + q.n * p.d, p.d * q.d)
RatSub(p, q) == Rat(p.n * q.d - q.n * p.d, p.d * q.d)
RatMul(p, q) == Rat(p.n * q.n, p.d * q.d)
RatDiv(p, q) == Rat(p.n * q.d, p.d * q.n)
RatAbs(p) == [n |-> Abs(p.n), d |-> p.d]
RatLeq(p, q) == p.n * q.d <= q.n * p.d
RatLt(p, q) == p.n * q.d < q.n * p.d

---------------------------------------------------------------------------
(* JavaScript values and completions *)

JSNull == [t |-> "null"]
JSUndefined == [t |-> "undefined"]
JSNaN == [t |-> "NaN"]
JSInfinity == [t |-> "Infinity"]
JSStr(s) == [t |-> "string", v |-> s]
JSNum(q) == [t |-> "number", v |-> q]
JSInt(n) == JSNum(RatInt(n))
JSBool(b) == [t |-> "boolean", v |-> b]

IsStr(x, s) == x.t = "string" /\ x.v = s

\* ToBoolean(x) = false
Falsy(x) ==
    \/ x.t \in {"null", "undefined", "NaN"}
    \/ IsStr(x, "")
    \/ (x.t = "number" /\ x.v.n = 0)
    \/ (x.t = "boolean" /\ ~x.v)

\* x === y
StrictEq(x, y) == x.t # "NaN" /\ x = y

Return(v) == [kind |-> "return", value |-> v]
Throw(e) == [kind |-> "throw", value |-> e]

---------------------------------------------------------------------------
(* String helpers: String.prototype.split and Number(string) *)

DigitChars == "0123456789"
Digit(n) == SubSeq(DigitChars, n + 1, n + 1)
IsDigit(c) == \E n \in 0..9 : Digit(n) = c
DigitVal(c) == CHOOSE n \in 0..9 : Digit(n) = c

\* index of the first occurrence of the one-character separator, 0 if none
RECURSIVE IndexOf(_, _, _)
IndexOf(s, sep, from) ==
    IF from > Len(s) THEN 0
    ELSE IF SubSeq(s, from, from) = sep THEN from
    ELSE IndexOf(s, sep, from + 1)

\* s.split(sep) for a one-character separator: always at least one part
RECURSIVE Split(_, _)
Split(s, sep) ==
    LET k == IndexOf(s, sep, 1)
    IN IF k = 0 THEN <<s>>
       ELSE <<SubSeq(s, 1, k - 1)>> \o Split(SubSeq(s, k + 1, Len(s)), sep)

RECURSIVE AllDigits(_)
AllDigits(s) == s = "" \/ (IsDigit(Head(s)) /\ AllDigits(Tail(s)))

RECURSIVE DigitsToNat(_, _)
DigitsToNat(s, acc) ==
    IF s = "" THEN acc ELSE DigitsToNat(Tail(s), 10 * acc + DigitVal(Head(s)))

\* Number(x) as Array.prototype.map(Number) applies it to the parts of a
\* split; an array hole past the end destructures to undefined.  Over the
\* alphabet of digits, ':' and letters: "" is 0, a digit string is its
\* decimal value, anything else is NaN.
Number(s) == IF AllDigits(s) THEN JSInt(DigitsToNat(s, 0)) ELSE JSNaN

\* x * y, x + y, x - y on numbers (NaN and undefined operands give NaN)
JSMul(x, y) == IF x.t = "number" /\ y.t = "number" THEN JSNum(RatMul(x.v, y.v)) ELSE JSNaN
JSAdd(x, y) == IF x.t = "number" /\ y.t = "number" THEN JSNum(RatAdd(x.v, y.v)) ELSE JSNaN
JSSub(x, y) == IF x.t = "number" /\ y.t = "number" THEN JSNum(RatSub(x.v, y.v)) ELSE JSNaN
MathAbs(x) == IF x.t = "number" THEN JSNum(RatAbs(x.v)) ELSE x
\* variant: strict comparison
JSLeqStrict(x, n) == x.t = "number" /\ RatLt(x.v, RatInt(n))
\* x <= n and x > n for an integer literal n (false for NaN)
JSLeq(x, n) == x.t = "number" /\ RatLeq(x.v, RatInt(n))
JSGt(x, n) == (x.t = "number" /\ RatLt(RatInt(n), x.v)) \/ x.t = "Infinity"

---------------------------------------------------------------------------
(* eval-final.js: timeToMinutes, getTimeDiffMinutes *)

timeToMinutes(timeStr) ==
    IF Falsy(timeStr) \/ IsStr(timeStr, "null") THEN Return(JSNull)
    ELSE IF timeStr.t # "string" THEN Throw("TypeError")  \* timeStr.split is not a function
    ELSE LET parts == Split(timeStr.v, ":")
             hours == Number(parts[1])
             mins == IF Len(parts) >= 2 THEN Number(parts[2]) ELSE JSUndefined
         IN Return(JSAdd(JSMul(hours, JSInt(60)), mins))

getTimeDiffMinutes(time1, time2) ==
    LET mins1 == timeToMinutes(time1)
        mins2 == timeToMinutes(time2)
    IN IF mins1.kind = "throw" THEN mins1
       ELSE IF mins2.kind = "throw" THEN mins2
       ELSE IF mins1.value = JSNull \/ mins2.value = JSNull THEN Return(JSInfinity)
       ELSE Return(MathAbs(JSSub(mins1.value, mins2.value)))

---------------------------------------------------------------------------
(* lib/aircraft-utils.js: AIRCRAFT_FAMILIES, isSameFamily *)

AIRCRAFT_FAMILIES ==
    [f \in {"Boeing 737", "Boeing 777", "Boeing 787", "Boeing 747", "Boeing 757",
            "Boeing 767", "Airbus A320", "Airbus A330", "Airbus A350", "Airbus A380",
            "Embraer E170", "Embraer E190", "Embraer E175-E2", "Embraer E190-E2",
            "Bombardier CRJ", "ATR 42/72", "DHC Dash 8"} |->
        CASE f = "Boeing 737" -> <<"Boeing 737NG", "Boeing 737MAX", "Boeing 717">>
          [] f = "Boeing 777" -> <<"Boeing 777", "Boeing 777-200", "Boeing 777-300ER">>
          [] f = "Boeing 787" -> <<"Boeing 787", "Boeing 787-8", "Boeing 787-9", "Boeing 787-10">>
          [] f = "Boeing 747" -> <<"Boeing 747", "Boeing 747-400", "Boeing 747-8">>
          [] f = "Boeing 757" -> <<"Boeing 757", "Boeing 757-200", "Boeing 757-300">>
          [] f = "Boeing 767" -> <<"Boeing 767", "Boeing 767-300", "Boeing 767-400">>
          [] f = "Airbus A320" -> <<"Airbus A319", "Airbus A320", "Airbus A321">>
          [] f = "Airbus A330" -> <<"Airbus A330", "Airbus A330-200", "Airbus A330-300", "Airbus A330-900">>
          [] f = "Airbus A350" -> <<"Airbus A350", "Airbus A350-900", "Airbus A350-1000">>
          [] f = "Airbus A380" -> <<"Airbus A380", "Airbus A380-800">>
          [] f = "Embraer E170" -> <<"Embraer E170", "Embraer E175">>
          [] f = "Embraer E190" -> <<"Embraer E190", "Embraer E195">>
          [] f = "Embraer E175-E2" -> <<"Embraer E175-E2", "Embraer E170-E2">>
          [] f = "Embraer E190-E2" -> <<"Embraer E190-E2", "Embraer E195-E2">>
          [] f = "Bombardier CRJ" -> <<"Bombardier CRJ", "Bombardier CRJ-200", "Bombardier CRJ-700", "Bombardier CRJ-900">>
          [] f = "ATR 42/72" -> <<"ATR 42/72", "ATR 42", "ATR 72">>
          [] f = "DHC Dash 8" -> <<"DHC Dash 8", "DHC Dash 8-400">>]

\* variant: x is the beginning of a member
IncludesPrefix(members, x) ==
    x.t = "string" /\ \E k \in 1..Len(members) :
        Len(x.v) <= Len(members[k]) /\ SubSeq(members[k], 1, Len(x.v)) = x.v

\* members.includes(x): only a string can equal a member
Includes(members, x) == x.t = "string" /\ \E k \in 1..Len(members) : members[k] = x.v

\* variant: the second name is looked up in the family named by the first
isSameFamilyDirected(aircraft1, aircraft2) ==
    IF Falsy(aircraft1) \/ Falsy(aircraft2) THEN FALSE
    ELSE IF StrictEq(aircraft1, aircraft2) THEN TRUE
    ELSE /\ aircraft1.t = "string"
         /\ aircraft1.v \in DOMAIN AIRCRAFT_FAMILIES
         /\ Includes(AIRCRAFT_FAMILIES[aircraft1.v], aircraft2)

\* variant: one member of the family is enough
isSameFamilyEither(aircraft1, aircraft2) ==
    IF Falsy(aircraft1) \/ Falsy(aircraft2) THEN FALSE
    ELSE IF StrictEq(aircraft1, aircraft2) THEN TRUE
    ELSE \E family \in DOMAIN AIRCRAFT_FAMILIES :
            \/ Includes(AIRCRAFT_FAMILIES[family], aircraft1)
            \/ Includes(AIRCRAFT_FAMILIES[family], aircraft2)

isSameFamily(aircraft1, aircraft2) ==
    IF Falsy(aircraft1) \/ Falsy(aircraft2) THEN FALSE
    ELSE IF StrictEq(aircraft1, aircraft2) THEN TRUE
    ELSE \E family \in DOMAIN AIRCRAFT_FAMILIES :
            /\ Includes(AIRCRAFT_FAMILIES[family], aircraft1)
            /\ Includes(AIRCRAFT_FAMILIES[family], aircraft2)

---------------------------------------------------------------------------
(* eval-final.js: compareField *)

FieldComparison(m, g) == [match |-> m, grade |-> g]

Grade0 == JSNum(Rat(0, 10))
Grade07 == JSNum(Rat(7, 10))
Grade08 == JSNum(Rat(8, 10))
Grade1 == JSNum(Rat(10, 10))

\* variant: the early return forgets the 'null' sentinel
isMissingNoSentinel(x) == Falsy(x) \/ x = JSNull

\* the early return on a missing extracted value
isMissing(x) == Falsy(x) \/ IsStr(x, "null") \/ x = JSNull

\* variant: the excluded field is given a grade
compareFlightNumberGraded(x, y) == Return(FieldComparison(JSNull, Grade0))

\* case 'flightNumber'
compareFlightNumber(x, y) == Return(FieldComparison(JSNull, JSNull))

\* variant: the branches of the grade conditional are swapped
compareExactSwapped(x, y) ==
    Return(FieldComparison(JSBool(StrictEq(x, y)),
                           IF StrictEq(x, y) THEN Grade0 ELSE Grade1))

\* case 'airlineCode' | 'departureAirportCode' | 'arrivalAirportCode' | 'flightDate'
compareExact(x, y) ==
    Return(FieldComparison(JSBool(StrictEq(x, y)),
                           IF StrictEq(x, y) THEN Grade1 ELSE Grade0))

\* case 'aircraftName'
compareAircraftName(x, y) ==
    IF StrictEq(x, y) THEN Return(FieldComparison(JSBool(TRUE), Grade1))
    ELSE IF isSameFamily(x, y) THEN Return(FieldComparison(JSBool(TRUE), Grade08))
    ELSE Return(FieldComparison(JSBool(FALSE), Grade0))

\* case 'flightTime'
compareFlightTime(x, y) ==
    LET diff == getTimeDiffMinutes(x, y)
    IN IF diff.kind = "throw" THEN diff
       ELSE IF JSLeq(diff.value, 15) THEN Return(FieldComparison(JSBool(TRUE), Grade1))
       ELSE IF JSLeq(diff.value, 30) THEN Return(FieldComparison(JSBool(TRUE), Grade07))
       ELSE Return(FieldComparison(JSBool(FALSE), Grade0))

compareField(f, x, y) ==
    IF isMissing(x) THEN Return(FieldComparison(JSBool(FALSE), Grade0))
    ELSE CASE f = "flightNumber" -> compareFlightNumber(x, y)
           [] f \in {"airlineCode", "departureAirportCode",
                     "arrivalAirportCode", "flightDate"} -> compareExact(x, y)
           [] f = "aircraftName" -> compareAircraftName(x, y)
           [] f = "flightTime" -> compareFlightTime(x, y)
           [] OTHER -> Return(FieldComparison(JSBool(FALSE), Grade0))

---------------------------------------------------------------------------
(* Inputs of a single compareField call *)

\* the field list of compareAllFields
fields == <<"flightNumber", "airlineCode", "departureAirportCode",
            "arrivalAirportCode", "flightDate", "aircraftName", "flightTime">>

FieldNames == {fields[k] : k \in 1..Len(fields)}

Pad2(n) == Digit(n \div 10) \o Digit(n % 10)
HHMM(h, m) == Pad2(h) \o ":" \o Pad2(m)

\* values any field can receive from the extraction provider or the dataset
CommonValues ==
    {JSNull, JSUndefined, JSStr(""), JSStr("null"), JSInt(0), JSInt(90), JSBool(TRUE)}

TimeValues ==
    {JSStr(HHMM(h, m)) : h \in 0..MaxHour, m \in 0..59}
    \cup {JSStr(s) : s \in {"90", "1:5", "ab:cd", "01:30:00", ":30", "01:", "1h30"}}

FamilyMembers ==
    UNION {{AIRCRAFT_FAMILIES[f][k] : k \in 1..Len(AIRCRAFT_FAMILIES[f])} :
           f \in DOMAIN AIRCRAFT_FAMILIES}

AircraftValues ==
    {JSStr(s) : s \in FamilyMembers \cup {"Boeing 737", "Airbus A220", "Other", "B738"}}

ExactValues ==
    {JSStr(s) : s \in {"WN", "AA", "wn", "LAS", "ABQ", "16-12-2025", "17-12-2025"}}

FlightNumberValues == {JSStr("548"), JSStr("1234"), JSInt(548)}

ArgValues(f) ==
    CommonValues \cup
    (CASE f = "flightTime" -> TimeValues
       [] f = "aircraftName" -> AircraftValues
       [] f = "flightNumber" -> FlightNumberValues
       [] OTHER -> ExactValues)

NoCall == [kind |-> "none"]

---------------------------------------------------------------------------
(* SpecField: one call compareField(field, extracted, groundTruth) *)

InitField ==
    /\ pc = "call"
    /\ field \in FieldNames \cup {"overallAssessment"}
    /\ extracted \in ArgValues(field)
    /\ groundTruth \in ArgValues(field)
    /\ ret = NoCall
    /\ results = <<>>
    /\ metrics = NoCall
    /\ summary = NoCall
    /\ testDataset = <<>>
    /\ i = 0

CallCompareField ==
    /\ pc = "call"
    /\ ret' = compareField(field, extracted, groundTruth)
    /\ pc' = "returned"
    /\ UNCHANGED <<field, extracted, groundTruth, results, metrics, summary, testDataset, i>>

NextField == CallCompareField

SpecField == InitField /\ [][NextField]_vars

---------------------------------------------------------------------------
(* JavaScript objects are functions from their own keys to values *)

\* o[k]: undefined when o has no key k
Get(o, k) == IF k \in DOMAIN o THEN o[k] ELSE JSUndefined

---------------------------------------------------------------------------
(* eval-final.js: compareAllFields, flagForReview *)

compareAllFields(e, g) ==
    IF \E f \in FieldNames : compareField(f, Get(e, f), Get(g, f)).kind = "throw"
    THEN Throw("TypeError")
    ELSE Return([f \in FieldNames |-> compareField(f, Get(e, f), Get(g, f)).value])

isNullish(v) == v = JSNull \/ IsStr(v, "null") \/ v = JSUndefined

\* variant: the fourth push repeats the third flag
flagNamesRepeated ==
    <<"aircraft_missing", "aircraft_mismatch", "duration_error", "duration_error">>

\* the strings of the four flags.push calls, in the order of the code
flagNames == <<"aircraft_missing", "aircraft_mismatch", "duration_error", "low_quality">>

flagForReview(result) ==
    LET e == result.extracted
        g == result.groundTruth
        c == result.comparison
        aircraft == Get(e, "aircraftName")
        time == Get(e, "flightTime")
        flag1 == IF (Falsy(aircraft) \/ IsStr(aircraft, "null")) /\ ~Falsy(time)
                 THEN <<flagNames[1]>> ELSE <<>>
        flag2 == IF /\ "aircraftName" \in DOMAIN c
                    /\ c["aircraftName"].grade = Grade0
                    /\ ~Falsy(aircraft)
                 THEN <<flagNames[2]>> ELSE <<>>
        timed == ~Falsy(time) /\ ~Falsy(Get(g, "duration"))
        durationDiff == getTimeDiffMinutes(time, Get(g, "duration"))
        flag3 == IF timed /\ durationDiff.kind = "return" /\ JSGt(durationDiff.value, 30)
                 THEN <<flagNames[3]>> ELSE <<>>
        nullCount == Cardinality({k \in DOMAIN e : isNullish(e[k])})
        flag4 == IF nullCount >= 3 THEN <<flagNames[4]>> ELSE <<>>
    IN IF timed /\ durationDiff.kind = "throw" THEN durationDiff
       ELSE Return(flag1 \o flag2 \o flag3 \o flag4)

---------------------------------------------------------------------------
(* Number.prototype.toFixed(1) of a non-negative number, and the percent    *)
(* strings of lib/metrics.js.  Arithmetic is exact; the code's is IEEE      *)
(* double precision.                                                        *)

RECURSIVE NatToStr(_)
NatToStr(n) == IF n < 10 THEN Digit(n) ELSE NatToStr(n \div 10) \o Digit(n % 10)

\* round to one decimal, half up; NaN and Infinity print as their names
toFixed1(q) ==
    IF q.d = 0 THEN (IF q.n = 0 THEN "NaN" ELSE "Infinity")
    ELSE LET t == (20 * q.n + q.d) \div (2 * q.d)
         IN NatToStr(t \div 10) \o "." \o Digit(t % 10)

Percent(q) == toFixed1(RatMul(q, RatInt(100))) \o "%"

---------------------------------------------------------------------------
(* lib/metrics.js: calculateFieldMetrics, calculateAllMetrics,               *)
(* getSummaryStats                                                           *)

\* variant: the filter is inverted and counts the missing values
isExtractedInverted(value) == value = JSNull \/ value = JSUndefined \/ IsStr(value, "null")

\* variant: the count uses truthiness, so an empty string is not counted
isExtractedTruthy(value) == ~Falsy(value) /\ ~IsStr(value, "null")

\* the filter of the `extracted` count
isExtracted(value) == value # JSNull /\ value # JSUndefined /\ ~IsStr(value, "null")

\* variant: a case whose flightNumber comparison failed is correct in no field
isCorrectWhole(r, f) ==
    /\ f \in DOMAIN r.comparison /\ r.comparison[f].match = JSBool(TRUE)
    /\ r.comparison["flightNumber"].match # JSBool(FALSE)

\* the filter of the `correct` count: comparison && comparison.match === true
isCorrect(r, f) == f \in DOMAIN r.comparison /\ r.comparison[f].match = JSBool(TRUE)

\* variant: no guard on the number of extractions
precisionOfUnguarded(correct, extractedN) == Rat(correct, extractedN)

precisionOf(correct, extractedN) ==
    IF extractedN > 0 THEN Rat(correct, extractedN) ELSE RatInt(0)

recallOf(correct, total) == IF total > 0 THEN Rat(correct, total) ELSE RatInt(0)

\* variant: the factor 2 of the harmonic mean is missing
f1OfNoFactor(precision, recall) ==
    IF RatLt(RatInt(0), RatAdd(precision, recall))
    THEN RatDiv(RatMul(precision, recall), RatAdd(precision, recall))
    ELSE RatInt(0)

f1Of(precision, recall) ==
    IF RatLt(RatInt(0), RatAdd(precision, recall))
    THEN RatDiv(RatMul(RatInt(2), RatMul(precision, recall)), RatAdd(precision, recall))
    ELSE RatInt(0)

calculateFieldMetrics(rs, f) ==
    LET total == Len(rs)
        extractedN == Cardinality({k \in 1..Len(rs) : isExtracted(Get(rs[k].extracted, f))})
        correct == Cardinality({k \in 1..Len(rs) : isCorrect(rs[k], f)})
        precision == precisionOf(correct, extractedN)
        recall == recallOf(correct, total)
        f1 == f1Of(precision, recall)
    IN [total |-> total, extracted |-> extractedN, correct |-> correct,
        precision |-> Percent(precision), recall |-> Percent(recall), f1 |-> Percent(f1),
        precisionRaw |-> precision, recallRaw |-> recall, f1Raw |-> f1]

\* variant: every field weighs 1.0
weightsUniform(f) == RatInt(1)

\* the weights table of calculateAllMetrics; weights[field] || 1.0
weights(f) ==
    CASE f \in {"airlineCode", "departureAirportCode",
                "arrivalAirportCode", "flightDate"} -> Rat(1, 2)
      [] f \in {"aircraftName", "flightTime"} -> Rat(3, 2)
      [] OTHER -> RatInt(1)

\* the accumulation loop over fields[1..k]: <<weightedF1Sum, totalWeight>>
RECURSIVE weightedSums(_, _, _)
weightedSums(rs, flds, k) ==
    IF k = 0 THEN <<RatInt(0), RatInt(0)>>
    ELSE LET acc == weightedSums(rs, flds, k - 1)
         IN <<RatAdd(acc[1], RatMul(calculateFieldMetrics(rs, flds[k]).f1Raw,
                                    weights(flds[k]))),
              RatAdd(acc[2], weights(flds[k]))>>

\* weightedF1Sum / totalWeight, 0 when the total weight is 0
overallF1Of(sums) ==
    IF RatLt(RatInt(0), sums[2]) THEN RatDiv(sums[1], sums[2]) ELSE RatInt(0)

overallOf(overallF1) == [weightedF1 |-> Percent(overallF1), weightedF1Raw |-> overallF1]

calculateAllMetrics(rs, flds) ==
    [k \in {flds[j] : j \in 1..Len(flds)} \cup {"overall"} |->
        IF k = "overall"
        THEN overallOf(overallF1Of(weightedSums(rs, flds, Len(flds))))
        ELSE calculateFieldMetrics(rs, k)]

\* sum and number of the numeric grades of one comparison object
RECURSIVE gradeSum(_, _)
gradeSum(c, keys) ==
    IF keys = {} THEN <<RatInt(0), 0>>
    ELSE LET k == CHOOSE x \in keys : TRUE
             rest == gradeSum(c, keys \ {k})
         IN IF c[k].grade.t = "number"
            THEN <<RatAdd(rest[1], c[k].grade.v), rest[2] + 1>>
            ELSE rest

\* the forEach over results[1..k]: <<totalGrade, gradeCount>>
RECURSIVE gradeTotals(_, _)
gradeTotals(rs, k) ==
    IF k = 0 THEN <<RatInt(0), 0>>
    ELSE LET acc == gradeTotals(rs, k - 1)
             g == gradeSum(rs[k].comparison, DOMAIN rs[k].comparison)
         IN <<RatAdd(acc[1], g[1]), acc[2] + g[2]>>

isTrueMatch(c) == c.match = JSBool(TRUE)
isData(v) == v # JSNull /\ v # JSUndefined /\ ~IsStr(v, "null")

getSummaryStats(rs) ==
    LET totalFlights == Len(rs)
        perfectMatches == Cardinality({k \in 1..Len(rs) :
            \A f \in DOMAIN rs[k].comparison : isTrueMatch(rs[k].comparison[f])})
        withData == Cardinality({k \in 1..Len(rs) :
            \E f \in DOMAIN rs[k].extracted : isData(rs[k].extracted[f])})
        flaggedCount == Cardinality({k \in 1..Len(rs) : Len(rs[k].flags) > 0})
        totals == gradeTotals(rs, Len(rs))
        avgGrade == IF totals[2] > 0 THEN RatDiv(totals[1], RatInt(totals[2]))
                    ELSE RatInt(0)
    IN [totalFlights |-> totalFlights, perfectMatches |-> perfectMatches,
        withData |-> withData, flaggedCount |-> flaggedCount,
        avgGrade |-> Percent(avgGrade), avgGradeRaw |-> avgGrade]

---------------------------------------------------------------------------
(* SpecBatch: a caller builds a batch of evaluation cases from             *)
(* (extracted, groundTruth) pairs and then reduces it to metrics.          *)

\* the scored fields runEvaluation and generateMarkdownReport pass
scoredFields == <<"airlineCode", "departureAirportCode", "arrivalAirportCode",
                  "flightDate", "aircraftName", "flightTime">>

ScoredNames == {scoredFields[k] : k \in 1..Len(scoredFields)}

\* ground truth of the end-to-end scenario (no flightNumber key)
GT_LAS_ABQ ==
    [airlineCode |-> JSStr("WN"), departureAirportCode |-> JSStr("LAS"),
     arrivalAirportCode |-> JSStr("ABQ"), flightDate |-> JSStr("16-12-2025"),
     aircraftName |-> JSStr("Boeing 737NG"), flightTime |-> JSStr("01:30")]

GT_Full == [f \in FieldNames |-> IF f = "flightNumber" THEN JSStr("548") ELSE GT_LAS_ABQ[f]]

\* o with o[k] = v (k added if absent)
With(o, k, v) == [x \in DOMAIN o \cup {k} |-> IF x = k THEN v ELSE o[x]]
\* o without key k
Without(o, k) == [x \in DOMAIN o \ {k} |-> o[x]]

EX_Scenario == With(With(GT_LAS_ABQ, "aircraftName", JSStr("Boeing 737MAX")),
                    "flightTime", JSStr("01:50"))

\* the record runEvaluation builds when the extraction failed
EX_Failed ==
    [f \in FieldNames \cup {"overallAssessment"} |->
        IF f = "overallAssessment" THEN JSStr("Error: timeout") ELSE JSNull]

ExtractedRecords ==
    { GT_Full,                                          \* everything right
      EX_Scenario,                                      \* same family, 20 minutes off
      EX_Failed,
      With(GT_Full, "flightNumber", JSNull),            \* only flightNumber missing
      With(GT_Full, "flightNumber", JSStr("1234")),     \* another flight number
      With(GT_Full, "aircraftName", JSNull),
      With(With(GT_Full, "aircraftName", JSStr("null")), "flightTime", JSStr("null")),
      Without(Without(GT_Full, "aircraftName"), "flightTime"),
      With(GT_Full, "airlineCode", JSStr("")),          \* empty string
      With(With(With(GT_Full, "airlineCode", JSStr("AA")),
                "aircraftName", JSStr("Airbus A320")), "flightTime", JSStr("03:00")),
      With(GT_Full, "flightTime", JSStr("02:01")),      \* 31 minutes off
      With(GT_Full, "flightTime", JSInt(90)) }          \* minutes as a number

GroundTruthRecords == {GT_LAS_ABQ, GT_Full}

\* the pairs a batch is built from: the scenario against its own ground
\* truth, every record against the full ground truth
CasePairs ==
    {<<EX_Scenario, GT_LAS_ABQ>>} \cup {<<e, GT_Full>> : e \in ExtractedRecords}

InitBatch ==
    /\ pc = "collect"
    /\ field = "" /\ extracted = JSUndefined /\ groundTruth = JSUndefined
    /\ ret = NoCall
    /\ results = <<>>
    /\ metrics = NoCall
    /\ summary = NoCall
    /\ testDataset = <<>>
    /\ i = 0

\* the result object of a case, before and after flagForReview
resultObject(e, g, comparison) ==
    [groundTruth |-> g, extracted |-> e, comparison |-> comparison]
\* variant: the call rewrites the 'null' strings of the extracted record
flaggedNormalised(result, flags) ==
    [groundTruth |-> result.groundTruth,
     extracted |-> [k \in DOMAIN result.extracted |->
                      IF IsStr(result.extracted[k], "null") THEN JSNull
                      ELSE result.extracted[k]],
     comparison |-> result.comparison, flags |-> flags]

flagged(result, flags) ==
    [groundTruth |-> result.groundTruth, extracted |-> result.extracted,
     comparison |-> result.comparison, flags |-> flags]

\* one case: compareAllFields, flagForReview, results.push; an exception of
\* either call reaches the caller and no case is added
AddCase ==
    /\ pc = "collect"
    /\ Len(results) < MaxCases
    /\ \E pair \in CasePairs :
       \E comparison \in {compareAllFields(pair[1], pair[2])} :
          IF comparison.kind = "throw"
          THEN ret' = comparison /\ UNCHANGED results
          ELSE \E result \in {resultObject(pair[1], pair[2], comparison.value)} :
               \E flags \in {flagForReview(result)} :
                  /\ ret' = flags
                  /\ IF flags.kind = "throw" THEN UNCHANGED results
                     ELSE results' = Append(results, flagged(result, flags.value))
    /\ UNCHANGED <<pc, field, extracted, groundTruth, metrics, summary, testDataset, i>>

\* the `fields` argument of calculateAllMetrics: the scored fields, or none
FieldLists == {scoredFields, <<>>}

\* the batch-level reduction
ComputeMetrics ==
    /\ pc = "collect"
    /\ \E flds \in FieldLists : metrics' = calculateAllMetrics(results, flds)
    /\ summary' = getSummaryStats(results)
    /\ pc' = "reported"
    /\ UNCHANGED <<field, extracted, groundTruth, ret, results, testDataset, i>>

NextBatch == AddCase \/ ComputeMetrics

SpecBatch == InitBatch /\ [][NextBatch]_vars

---------------------------------------------------------------------------
(* eval-final.js: AIRCRAFT_MAPPING, mapAircraftCode, runEvaluation          *)

AIRCRAFT_MAPPING ==
    [c \in {"B738", "B739", "B73J", "B737", "B38M", "B712", "B753", "B77W", "B77L",
            "B772", "B773", "B78X", "B788", "B789", "B744", "B748", "A320", "A20N",
            "A321", "A21N", "A319", "A19N", "A333", "A332", "A339", "A359", "A35K",
            "A388", "E75L", "E75S", "E170", "E190", "E290", "E195", "E295", "CRJ9",
            "CRJ7", "CRJ2", "DH8D", "AT76", "AT72"} |->
        CASE c \in {"B738", "B739", "B73J", "B737"} -> "Boeing 737NG"
          [] c = "B38M" -> "Boeing 737MAX"
          [] c = "B712" -> "Boeing 717"
          [] c = "B753" -> "Boeing 757"
          [] c \in {"B77W", "B77L", "B772", "B773"} -> "Boeing 777"
          [] c \in {"B78X", "B788", "B789"} -> "Boeing 787"
          [] c \in {"B744", "B748"} -> "Boeing 747"
          [] c \in {"A320", "A20N"} -> "Airbus A320"
          [] c \in {"A321", "A21N"} -> "Airbus A321"
          [] c \in {"A319", "A19N"} -> "Airbus A319"
          [] c \in {"A333", "A332", "A339"} -> "Airbus A330"
          [] c \in {"A359", "A35K"} -> "Airbus A350"
          [] c = "A388" -> "Airbus A380"
          [] c \in {"E75L", "E75S"} -> "Embraer E175-E2"
          [] c = "E170" -> "Embraer E170"
          [] c \in {"E190", "E290"} -> "Embraer E190"
          [] c \in {"E195", "E295"} -> "Embraer E195-E2"
          [] c \in {"CRJ9", "CRJ7", "CRJ2"} -> "Bombardier CRJ"
          [] c = "DH8D" -> "DHC Dash 8"
          [] c \in {"AT76", "AT72"} -> "ATR 42/72"]

\* AIRCRAFT_MAPPING[icaoCode] || icaoCode
mapAircraftCode(icaoCode) ==
    IF icaoCode.t = "string" /\ icaoCode.v \in DOMAIN AIRCRAFT_MAPPING
    THEN JSStr(AIRCRAFT_MAPPING[icaoCode.v])
    ELSE icaoCode

\* the groundTruthData object of the loop body: the duration is stored under
\* the key `duration`
groundTruthDataOf(testCase) ==
    [flightNumber |-> testCase.flightNumber,
     airlineCode |-> testCase.airlineCode,
     departureAirportCode |-> testCase.originCode,
     arrivalAirportCode |-> testCase.destinationCode,
     flightDate |-> testCase.date,
     aircraftName |-> mapAircraftCode(testCase.aircraft),
     duration |-> testCase.duration]

\* entries of DATASET (flight-dataset-landed-simple.json, mapped at load)
TC_LAS_ABQ ==
    [airlineCode |-> JSStr("WN"), airlineName |-> JSStr("Southwest Airlines"),
     flightNumber |-> JSStr("548"),
     originCode |-> JSStr("LAS"), origin |-> JSStr("Las Vegas"),
     destinationCode |-> JSStr("ABQ"), destination |-> JSStr("Albuquerque"),
     date |-> JSStr("16-12-2025"), duration |-> JSStr("01:30"),
     aircraft |-> JSStr("B738")]

TC_JFK_BOS ==
    [airlineCode |-> JSStr("AA"), airlineName |-> JSStr("American Airlines"),
     flightNumber |-> JSStr("1234"),
     originCode |-> JSStr("JFK"), origin |-> JSStr("New York"),
     destinationCode |-> JSStr("BOS"), destination |-> JSStr("Boston"),
     date |-> JSStr("17-12-2025"), duration |-> JSStr("01:10"),
     aircraft |-> JSStr("B752")]

DATASET_ENTRIES == {TC_LAS_ABQ, TC_JFK_BOS}

\* what the structured-output chain can resolve to: the seven nullable string
\* fields of FlightDataSchema and the overallAssessment string
Assessed(o, text) == With(o, "overallAssessment", JSStr(text))

ChainOutputs ==
    { Assessed(GT_Full, "all found"),
      Assessed(With(With(GT_Full, "aircraftName", JSStr("Boeing 737MAX")),
                    "flightTime", JSStr("01:50")), "found"),
      Assessed(With(GT_Full, "aircraftName", JSNull), "no aircraft"),
      Assessed(With(GT_Full, "flightTime", JSStr("02:01")), "found"),
      Assessed([f \in FieldNames |-> JSNull], "NOT FOUND") }

Init ==
    /\ pc = "loop"
    /\ \E n \in 0..MaxTests : testDataset \in [1..n -> DATASET_ENTRIES]
    /\ i = 0
    /\ results = <<>>
    /\ metrics = NoCall
    /\ summary = NoCall
    /\ field = "" /\ extracted = JSUndefined /\ groundTruth = JSUndefined
    /\ ret = NoCall

\* the catch block: the case of a failed extraction is pushed
Catch(testCase, thrown) ==
    \E comparison \in {compareAllFields(EX_Failed, groundTruthDataOf(testCase))} :
    \E result \in {resultObject(EX_Failed, testCase, comparison.value)} :
    \E flags \in {flagForReview(result)} :
        /\ ret' = thrown
        /\ results' = Append(results, flagged(result, flags.value))

\* one iteration whose chain.invoke resolves: the try block, and the catch
\* block when compareAllFields or flagForReview throws
IterationResolved ==
    /\ pc = "loop"
    /\ i < Len(testDataset)
    /\ \E e \in ChainOutputs :
       \E comparison \in {compareAllFields(e, groundTruthDataOf(testDataset[i + 1]))} :
          IF comparison.kind = "throw" THEN Catch(testDataset[i + 1], comparison)
          ELSE \E result \in {resultObject(e, testDataset[i + 1], comparison.value)} :
               \E flags \in {flagForReview(result)} :
                  IF flags.kind = "throw" THEN Catch(testDataset[i + 1], flags)
                  ELSE /\ ret' = flags
                       /\ results' = Append(results, flagged(result, flags.value))
    /\ i' = i + 1
    /\ UNCHANGED <<pc, field, extracted, groundTruth, metrics, summary, testDataset>>

\* variant: a failed extraction skips the test case
IterationRejectedSkipping ==
    /\ pc = "loop"
    /\ i < Len(testDataset)
    /\ ret' = Throw("Error")
    /\ i' = i + 1
    /\ UNCHANGED <<pc, field, extracted, groundTruth, results, metrics, summary, testDataset>>

\* one iteration whose chain.invoke rejects: the catch block
IterationRejected ==
    /\ pc = "loop"
    /\ i < Len(testDataset)
    /\ Catch(testDataset[i + 1], Throw("Error"))
    /\ i' = i + 1
    /\ UNCHANGED <<pc, field, extracted, groundTruth, metrics, summary, testDataset>>

\* variant: the reduction does not wait for the end of the loop
SummariseEarly ==
    /\ pc = "loop"
    /\ metrics' = calculateAllMetrics(results, scoredFields)
    /\ summary' = getSummaryStats(results)
    /\ pc' = "done"
    /\ UNCHANGED <<field, extracted, groundTruth, ret, results, testDataset, i>>

\* after the loop: the reports, then the summary metrics
Summarise ==
    /\ pc = "loop"
    /\ ~(i < Len(testDataset))
    /\ metrics' = calculateAllMetrics(results, scoredFields)
    /\ summary' = getSummaryStats(results)
    /\ pc' = "done"
    /\ UNCHANGED <<field, extracted, groundTruth, ret, results, testDataset, i>>

Next == IterationResolved \/ IterationRejected \/ Summarise

Spec == Init /\ [][Next]_vars

---------------------------------------------------------------------------
(* SpecV2: runEvaluation of eval-v2-judge.js.  Its compareField and        *)
(* compareAllFields are copies that return what those of eval-final.js     *)
(* return; the chain resolves to an extracted record of the seven nullable *)
(* strings and a validation verdict.                                       *)

ChainOutputsV2 ==
    { GT_Full,
      With(With(GT_Full, "aircraftName", JSStr("Boeing 737MAX")), "flightTime", JSStr("01:50")),
      With(GT_Full, "aircraftName", JSNull),
      With(GT_Full, "flightTime", JSStr("02:01")),
      [f \in FieldNames |-> JSNull] }

ValidationStatuses == {"PASS", "FAIL"}

resultObjectV2(e, testCase, status, comparison) ==
    [groundTruth |-> testCase, extracted |-> e,
     validation |-> [validationStatus |-> status], comparison |-> comparison]

\* the catch block: a case with seven null fields, a FAIL verdict and the
\* comparison {}
CatchV2(testCase, thrown) ==
    /\ ret' = thrown
    /\ results' = Append(results,
            resultObjectV2([f \in FieldNames |-> JSNull], testCase, "FAIL", <<>>))

IterationResolvedV2 ==
    /\ pc = "loop"
    /\ i < Len(testDataset)
    /\ \E e \in ChainOutputsV2, status \in ValidationStatuses :
       \E comparison \in {compareAllFields(e, groundTruthDataOf(testDataset[i + 1]))} :
          IF comparison.kind = "throw" THEN CatchV2(testDataset[i + 1], comparison)
          ELSE /\ ret' = comparison
               /\ results' = Append(results,
                      resultObjectV2(e, testDataset[i + 1], status, comparison.value))
    /\ i' = i + 1
    /\ UNCHANGED <<pc, field, extracted, groundTruth, metrics, summary, testDataset>>

IterationRejectedV2 ==
    /\ pc = "loop"
    /\ i < Len(testDataset)
    /\ CatchV2(testDataset[i + 1], Throw("Error"))
    /\ i' = i + 1
    /\ UNCHANGED <<pc, field, extracted, groundTruth, metrics, summary, testDataset>>

\* after the loop: the reports and the validation summary
SummariseV2 ==
    /\ pc = "loop"
    /\ ~(i < Len(testDataset))
    /\ summary' = [passedValidation |->
                      Cardinality({k \in 1..Len(results) :
                          results[k].validation.validationStatus = "PASS"}),
                   total |-> Len(results)]
    /\ pc' = "done"
    /\ UNCHANGED <<field, extracted, groundTruth, ret, results, metrics, testDataset, i>>

NextV2 == IterationResolvedV2 \/ IterationRejectedV2 \/ SummariseV2

SpecV2 == Init /\ [][NextV2]_vars

---------------------------------------------------------------------------
(* SpecFlag: one call of flagForReview on the result object of one case,   *)
(* built as the loop body of runEvaluation builds it.                      *)

Absent == [t |-> "absent"]

\* o with key k set to v, or without key k when v is Absent
WithOpt(o, k, v) == IF v = Absent THEN Without(o, k) ELSE With(o, k, v)

AircraftOptions ==
    {Absent, JSNull, JSStr("null"), JSStr(""),
     JSStr("Boeing 737NG"), JSStr("Boeing 737MAX"), JSStr("Airbus A320")}

TimeOptions ==
    {Absent, JSNull, JSStr("null"), JSStr(""),
     JSStr("01:30"), JSStr("02:00"), JSStr("02:01"), JSStr("ab:cd")}

AssessmentOptions == {Absent, JSStr("found"), JSStr("null")}

\* the five other fields, in the order in which they go missing
otherFields == <<"flightNumber", "airlineCode", "departureAirportCode",
                 "arrivalAirportCode", "flightDate">>

\* GT_Full with the first n other fields set to v (or removed)
RECURSIVE Blanked(_, _)
Blanked(n, v) ==
    IF n = 0 THEN GT_Full ELSE WithOpt(Blanked(n - 1, v), otherFields[n], v)

OtherOptions ==
    {Blanked(n, JSNull) : n \in 0..3} \cup {Blanked(n, Absent) : n \in 1..3}
        \cup {Blanked(2, JSStr("null"))}

FlagExtracted ==
    {WithOpt(WithOpt(WithOpt(o, "aircraftName", a), "flightTime", t), "overallAssessment", s) :
        o \in OtherOptions, a \in AircraftOptions, t \in TimeOptions,
        s \in AssessmentOptions}

FlagTestCases == {TC_LAS_ABQ, With(TC_LAS_ABQ, "duration", JSNull)}

InitFlag ==
    /\ pc = "call"
    /\ \E e \in FlagExtracted, testCase \in FlagTestCases :
         \E comparison \in {compareAllFields(e, groundTruthDataOf(testCase))} :
            /\ comparison.kind = "return"
            /\ results = <<resultObject(e, testCase, comparison.value)>>
    /\ field = "" /\ extracted = JSUndefined /\ groundTruth = JSUndefined
    /\ ret = NoCall
    /\ metrics = NoCall
    /\ summary = NoCall
    /\ testDataset = <<>>
    /\ i = 0

CallFlagForReview ==
    /\ pc = "call"
    /\ ret' = flagForReview(results[1])
    /\ pc' = "flagged"
    /\ UNCHANGED <<field, extracted, groundTruth, results, metrics, summary, testDataset, i>>

NextFlag == CallFlagForReview

SpecFlag == InitFlag /\ [][NextFlag]_vars

---------------------------------------------------------------------------
(* eval.js: timeToMinutes, compareDuration, compareAircraft, compareResults *)

UpperChars == "ABCDEFGHIJKLMNOPQRSTUVWXYZ"
LowerChars == "abcdefghijklmnopqrstuvwxyz"

\* String.prototype.toLowerCase over the ASCII letters
RECURSIVE toLowerCase(_)
toLowerCase(str) ==
    IF str = "" THEN ""
    ELSE LET c == SubSeq(str, 1, 1)
             k == IndexOf(UpperChars, c, 1)
         IN (IF k = 0 THEN c ELSE SubSeq(LowerChars, k, k))
                \o toLowerCase(SubSeq(str, 2, Len(str)))

\* String.prototype.includes
StrIncludes(str, sub) ==
    \E k \in 1..(Len(str) - Len(sub) + 1) : SubSeq(str, k, k + Len(sub) - 1) = sub

\* str.split(/[^0-9]/)[0]: the digits before the first other character
RECURSIVE LeadingDigits(_)
LeadingDigits(str) ==
    IF str = "" \/ ~IsDigit(SubSeq(str, 1, 1)) THEN ""
    ELSE SubSeq(str, 1, 1) \o LeadingDigits(SubSeq(str, 2, Len(str)))

\* eval.js timeToMinutes: 0 for a falsy or non-string value
timeToMinutesEval(timeStr) ==
    IF Falsy(timeStr) \/ timeStr.t # "string" THEN JSInt(0)
    ELSE LET parts == Split(timeStr.v, ":")
             hours == Number(parts[1])
             mins == IF Len(parts) >= 2 THEN Number(parts[2]) ELSE JSUndefined
         IN JSAdd(JSMul(hours, JSInt(60)), mins)

compareDuration(x, expected, tolerance) ==
    IF Falsy(x) \/ Falsy(expected) THEN Return(FALSE)
    ELSE Return(JSLeq(MathAbs(JSSub(timeToMinutesEval(x), timeToMinutesEval(expected))),
                      tolerance))

\* expected.split(' ')[0] + ' ' + expected.split(' ')[1]?.split(/[^0-9]/)[0]
familyOf(expected) ==
    LET words == Split(expected, " ")
    IN words[1] \o " " \o
       (IF Len(words) >= 2 THEN LeadingDigits(words[2]) ELSE "undefined")

compareAircraft(x, expected) ==
    IF Falsy(x) \/ Falsy(expected) THEN Return(FALSE)
    ELSE IF StrictEq(x, expected) THEN Return(TRUE)
    ELSE IF expected.t # "string" \/ x.t # "string" THEN Throw("TypeError")
    ELSE Return(StrIncludes(toLowerCase(x.v), toLowerCase(familyOf(expected.v))))

\* the entry of compareResults(extracted, groundTruth) for one field
compareResults(f, x, expected) ==
    CASE f = "aircraftName" -> compareAircraft(x, expected)
      [] f = "flightTime" -> compareDuration(x, expected, 15)
      [] OTHER -> Return(StrictEq(x, expected))

---------------------------------------------------------------------------
(* Properties of compareField (SpecField) *)

Returned == pc = "returned"
Excluded == FieldComparison(JSNull, JSNull)
Wrong == FieldComparison(JSBool(FALSE), Grade0)
Full == FieldComparison(JSBool(TRUE), Grade1)
SameFamilyCredit == FieldComparison(JSBool(TRUE), Grade08)
NearCredit == FieldComparison(JSBool(TRUE), Grade07)

ExactFields == {"airlineCode", "departureAirportCode", "arrivalAirportCode", "flightDate"}

\* C1: compareField('flightNumber', x, y) returns match = excluded (null)
\* with no grade for all x and y, a missing extracted value included.
C1_FlightNumberAlwaysExcluded ==
    (Returned /\ field = "flightNumber") => ret = Return(Excluded)

\* C2: for every field other than flightNumber and every ground truth, an
\* extracted value that is null, absent or the sentinel 'null' returns
\* {match: false, grade: 0.0}.
C2_MissingIsWrong ==
    (Returned /\ field # "flightNumber"
        /\ extracted \in {JSNull, JSUndefined, JSStr("null")})
    => ret = Return(Wrong)

C2_Witness ==
    /\ Returned /\ field = "airlineCode"
    /\ extracted = JSStr("null") /\ groundTruth = JSStr("null")
    /\ ret = Return(Wrong)

\* a well-formed HH:MM string of the enumerated range, and the minutes it
\* denotes (decoded by enumeration of the format, not by the parser)
WellFormedTime(x) ==
    \E n \in 0..(60 * MaxHour + 59) : x = JSStr(HHMM(n \div 60, n % 60))
MinutesOf(x) ==
    CHOOSE n \in 0..(60 * MaxHour + 59) : x = JSStr(HHMM(n \div 60, n % 60))

\* C3: for flightTime with two HH:MM values at absolute distance d minutes:
\* d <= 15 gives {true, 1.0}, 15 < d <= 30 gives {true, 0.7}, d > 30 gives
\* {false, 0.0}; 15 and 30 are inclusive.
C3_DurationTiers ==
    (Returned /\ field = "flightTime"
        /\ WellFormedTime(extracted) /\ WellFormedTime(groundTruth))
    => LET d == Abs(MinutesOf(extracted) - MinutesOf(groundTruth))
       IN ret = Return(IF d <= 15 THEN Full
                       ELSE IF d <= 30 THEN NearCredit
                       ELSE Wrong)

C3_Witness ==
    /\ Returned /\ field = "flightTime"
    /\ extracted = JSStr("01:30") /\ groundTruth = JSStr("01:00")
    /\ ret = Return(NearCredit)

\* both names are members of one group of the table
InSameGroup(x, y) ==
    /\ x.t = "string" /\ y.t = "string"
    /\ \E f \in DOMAIN AIRCRAFT_FAMILIES :
          LET group == {AIRCRAFT_FAMILIES[f][k] : k \in 1..Len(AIRCRAFT_FAMILIES[f])}
          IN x.v \in group /\ y.v \in group

\* C4: for aircraftName with a non-missing extracted value: identical names
\* give {true, 1.0}; otherwise two members of the same AIRCRAFT_FAMILIES
\* group give {true, 0.8}; otherwise {false, 0.0}, so two different names
\* outside the table never match.
C4_AircraftTiers ==
    (Returned /\ field = "aircraftName" /\ ~isMissing(extracted))
    => ret = Return(IF extracted = groundTruth THEN Full
                    ELSE IF InSameGroup(extracted, groundTruth) THEN SameFamilyCredit
                    ELSE Wrong)

C4_Witness ==
    /\ Returned /\ field = "aircraftName"
    /\ extracted = JSStr("Boeing 737MAX") /\ groundTruth = JSStr("Boeing 737NG")
    /\ ret = Return(SameFamilyCredit)

\* C5: for airlineCode, departureAirportCode, arrivalAirportCode and
\* flightDate with a non-missing extracted value the verdict is {true, 1.0}
\* when the two values are exactly equal and {false, 0.0} otherwise.
C5_ExactFields ==
    (Returned /\ field \in ExactFields /\ ~isMissing(extracted))
    => ret = Return(IF extracted = groundTruth THEN Full ELSE Wrong)

C5_Witness ==
    /\ Returned /\ field = "flightDate"
    /\ extracted = JSStr("16-12-2025") /\ groundTruth = JSStr("16-12-2025")
    /\ ret = Return(Full)

\* C6: compareField never raises, whatever the extracted and ground-truth
\* values are (a flightTime that is not a string included).
C6_NeverRaises == Returned => ret.kind = "return"

\* C7: in every FieldComparison compareField returns, grade is defined iff
\* match is not excluded, and a defined grade lies in [0.0, 1.0].
C7_GradeIffScored ==
    (Returned /\ ret.kind = "return")
    => LET c == ret.value
       IN /\ (c.grade # JSNull) <=> (c.match # JSNull)
          /\ c.grade # JSNull =>
                /\ c.grade.t = "number"
                /\ RatLeq(RatInt(0), c.grade.v) /\ RatLeq(c.grade.v, RatInt(1))

C7_Witness ==
    /\ Returned /\ field = "flightNumber" /\ extracted = JSStr("548")
    /\ ret = Return(Excluded)

---------------------------------------------------------------------------
(* Properties of the batch reduction (SpecBatch) *)

Reported == pc = "reported"

\* the reduction was given the scored fields
ReportedScored == Reported /\ ScoredNames \subseteq DOMAIN metrics

\* the batch is the one case of the end-to-end scenario
ScenarioBatch ==
    /\ Len(results) = 1
    /\ results[1].extracted = EX_Scenario
    /\ results[1].groundTruth = GT_LAS_ABQ

ScenarioGrades ==
    [k \in 1..Len(scoredFields) |-> results[1].comparison[scoredFields[k]].grade]

ExpectedScenarioGrades == <<Grade1, Grade1, Grade1, Grade1, Grade08, Grade07>>

\* C8: for the scenario (ground truth WN/LAS/ABQ/16-12-2025/Boeing 737NG/01:30,
\* extracted the same with Boeing 737MAX and 01:50) the six scored grades are
\* [1.0, 1.0, 1.0, 1.0, 0.8, 0.7] and the overall weighted F1 of the one-case
\* batch is strictly between 0.8 and 1.0.
C8_ScenarioOverallBelowOne ==
    (ReportedScored /\ ScenarioBatch)
    => /\ ScenarioGrades = ExpectedScenarioGrades
       /\ RatLt(Rat(8, 10), metrics["overall"].weightedF1Raw)
       /\ RatLt(metrics["overall"].weightedF1Raw, RatInt(1))

\* C8 (amended): for the scenario the six scored grades are
\* [1.0, 1.0, 1.0, 1.0, 0.8, 0.7]; all six comparisons match, every per-field
\* F1 is 1 and the overall weighted F1 of the one-case batch is exactly 1.0.
C8_ScenarioOverallIsOne ==
    (ReportedScored /\ ScenarioBatch)
    => /\ ScenarioGrades = ExpectedScenarioGrades
       /\ \A f \in ScoredNames : metrics[f].f1Raw = RatInt(1)
       /\ metrics["overall"].weightedF1Raw = RatInt(1)
       /\ metrics["overall"].weightedF1 = "100.0%"

C8_Witness ==
    /\ ReportedScored /\ ScenarioBatch
    /\ results[1].comparison["flightTime"] = NearCredit
    /\ metrics["overall"].weightedF1Raw = RatInt(1)

\* every comparison of the case that is not excluded has match === true
AllScoredMatch(r) ==
    \A f \in DOMAIN r.comparison :
        r.comparison[f].match # JSNull => r.comparison[f].match = JSBool(TRUE)

\* C9: perfectMatches is the number of cases in which every non-excluded
\* FieldComparison has match === true; the excluded flightNumber comparison
\* does not prevent a perfect match.
C9_PerfectMatches ==
    Reported =>
        summary.perfectMatches =
            Cardinality({k \in 1..Len(results) : AllScoredMatch(results[k])})

\* number of TRUE entries of a sequence of booleans, one entry at a time
RECURSIVE CountTrue(_)
CountTrue(bs) ==
    IF bs = <<>> THEN 0 ELSE (IF Head(bs) THEN 1 ELSE 0) + CountTrue(Tail(bs))

\* C10: per scored field: total = number of cases; extracted = number of
\* cases whose extracted value is not null, absent or 'null'; correct =
\* number of cases whose comparison has match === true; precision =
\* correct / extracted (0 if nothing was extracted); recall = correct / total
\* (0 for an empty batch); f1 = 2 * precision * recall / (precision + recall)
\* (0 if the sum is 0).
C10_FieldMetrics ==
    ReportedScored =>
        \A f \in ScoredNames :
            LET m == metrics[f]
                Present(r) == Get(r.extracted, f) \notin {JSNull, JSUndefined, JSStr("null")}
                Matches(r) == r.comparison[f].match = JSBool(TRUE)
                t == Len(results)
                e == CountTrue([k \in 1..Len(results) |-> Present(results[k])])
                c == CountTrue([k \in 1..Len(results) |-> Matches(results[k])])
                p == m.precisionRaw
                r == m.recallRaw
            IN /\ m.total = t /\ m.extracted = e /\ m.correct = c
               /\ IF e = 0 THEN p = RatInt(0) ELSE p.n * e = c * p.d
               /\ IF t = 0 THEN r = RatInt(0) ELSE r.n * t = c * r.d
               /\ IF RatAdd(p, r) = RatInt(0) THEN m.f1Raw = RatInt(0)
                  ELSE RatMul(m.f1Raw, RatAdd(p, r)) = RatMul(RatInt(2), RatMul(p, r))

C10_Witness ==
    /\ ReportedScored
    /\ metrics["airlineCode"].total = 3
    /\ metrics["airlineCode"].extracted = 2
    /\ metrics["airlineCode"].correct = 1
    /\ metrics["airlineCode"].precisionRaw = Rat(1, 2)
    /\ metrics["airlineCode"].recallRaw = Rat(1, 3)
    /\ metrics["airlineCode"].f1Raw = Rat(2, 5)

\* a finite number: neither NaN nor an infinity
Finite(q) == q.d > 0

FiniteText(str) == str \notin {"NaN%", "Infinity%", "-Infinity%"}

\* C11: the reduction of a degenerate batch gives finite numbers: with 0
\* cases precision = recall = f1 = 0; with no extraction for a field its
\* precision is 0; with precision + recall = 0 the f1 is 0; with no field
\* (total weight 0) the overall weighted score is 0.
C11_DegenerateBatches ==
    Reported =>
        /\ Finite(metrics["overall"].weightedF1Raw)
        /\ FiniteText(metrics["overall"].weightedF1)
        /\ (DOMAIN metrics = {"overall"} => metrics["overall"].weightedF1Raw = RatInt(0))
        /\ \A f \in DOMAIN metrics \ {"overall"} :
              /\ Finite(metrics[f].precisionRaw) /\ FiniteText(metrics[f].precision)
              /\ Finite(metrics[f].recallRaw) /\ FiniteText(metrics[f].recall)
              /\ Finite(metrics[f].f1Raw) /\ FiniteText(metrics[f].f1)
              /\ (metrics[f].total = 0 =>
                    /\ metrics[f].precisionRaw = RatInt(0)
                    /\ metrics[f].recallRaw = RatInt(0)
                    /\ metrics[f].f1Raw = RatInt(0))
              /\ (metrics[f].extracted = 0 => metrics[f].precisionRaw = RatInt(0))
              /\ (RatAdd(metrics[f].precisionRaw, metrics[f].recallRaw) = RatInt(0)
                    => metrics[f].f1Raw = RatInt(0))

\* a batch with cases, none of which extracted the aircraft name
C11_Witness ==
    /\ ReportedScored
    /\ Len(results) > 0
    /\ metrics["aircraftName"].extracted = 0
    /\ metrics["aircraftName"].precisionRaw = RatInt(0)
    /\ metrics["aircraftName"].f1Raw = RatInt(0)

\* the empty batch, and the reduction over no field
C11_EmptyBatch ==
    /\ Reported /\ Len(results) = 0
    /\ metrics = [overall |-> [weightedF1 |-> "0.0%", weightedF1Raw |-> RatInt(0)]]

\* sum of the f1 values of a set of fields, one field at a time
RECURSIVE SumF1(_)
SumF1(fs) ==
    IF fs = {} THEN RatInt(0)
    ELSE LET f == CHOOSE x \in fs : TRUE
         IN RatAdd(metrics[f].f1Raw, SumF1(fs \ {f}))

QueryFields == {"airlineCode", "departureAirportCode", "arrivalAirportCode", "flightDate"}
SearchedFields == {"aircraftName", "flightTime"}

\* C12: the overall score is sum(weight * f1) / sum(weight) over the six
\* scored fields, with weight 0.5 for airlineCode, departureAirportCode,
\* arrivalAirportCode and flightDate and 1.5 for aircraftName and flightTime
\* (total weight 5).
C12_WeightedMean ==
    ReportedScored =>
        RatMul(RatInt(5), metrics["overall"].weightedF1Raw)
            = RatAdd(RatMul(Rat(1, 2), SumF1(QueryFields)),
                     RatMul(Rat(3, 2), SumF1(SearchedFields)))

\* the query fields all at f1 = 1, the searched fields at f1 = 1/2 and 0:
\* (0.5 * 4 + 1.5 * 0.5 + 1.5 * 0) / 5 = 0.55
C12_Witness ==
    /\ ReportedScored
    /\ \A f \in QueryFields : metrics[f].f1Raw = RatInt(1)
    /\ metrics["aircraftName"].f1Raw = Rat(1, 2)
    /\ metrics["flightTime"].f1Raw = RatInt(0)
    /\ metrics["overall"].weightedF1Raw = Rat(11, 20)
    /\ metrics["overall"].weightedF1 = "55.0%"

\* the case r with another extracted and ground-truth flightNumber, and the
\* flightNumber comparison derived from them
Renumbered(r, x, y) ==
    [groundTruth |-> With(r.groundTruth, "flightNumber", y),
     extracted |-> With(r.extracted, "flightNumber", x),
     comparison |-> With(r.comparison, "flightNumber",
                         compareField("flightNumber", x, y).value),
     flags |-> r.flags]

\* <<extracted, ground truth>> flight numbers: missing, equal, different
OtherFlightNumbers ==
    {<<JSNull, JSStr("548")>>, <<JSStr("548"), JSStr("548")>>, <<JSStr("1234"), JSNull>>}

\* C13: the overall weighted F1 of a batch is the overall weighted F1 of
\* every batch that differs from it only in the extracted and ground-truth
\* flightNumber of its cases and in the flightNumber comparison.
C13_OverallIgnoresFlightNumber ==
    ReportedScored =>
        \A n \in OtherFlightNumbers :
            calculateAllMetrics([k \in 1..Len(results) |-> Renumbered(results[k], n[1], n[2])],
                                scoredFields)["overall"]
                = metrics["overall"]

\* two cases right in every scored field, one without a flightNumber and
\* one with another flight's number
C13_Witness ==
    /\ ReportedScored
    /\ Len(results) = 2
    /\ Get(results[1].extracted, "flightNumber") = JSNull
    /\ results[1].comparison["flightNumber"] = Wrong
    /\ Get(results[2].extracted, "flightNumber") = JSStr("1234")
    /\ results[2].comparison["flightNumber"] = Excluded
    /\ metrics["overall"].weightedF1Raw = RatInt(1)

---------------------------------------------------------------------------
(* Properties of the review flags (Spec, SpecFlag) *)

HasFlag(flags, name) == \E j \in 1..Len(flags) : flags[j] = name

\* the flag agrees with the minute difference of two well-formed times
DurationFlagAtBoundary(r) ==
    LET time == Get(r.extracted, "flightTime")
        duration == Get(r.groundTruth, "duration")
    IN /\ (isMissing(time) => ~HasFlag(r.flags, "duration_error"))
       /\ ((WellFormedTime(time) /\ WellFormedTime(duration))
            => (HasFlag(r.flags, "duration_error")
                <=> Abs(MinutesOf(time) - MinutesOf(duration)) > 30))

\* the flag agrees with the grade of the flightTime comparison of the case
DurationFlagIffWrong(r) ==
    ~isMissing(Get(r.extracted, "flightTime"))
    => (HasFlag(r.flags, "duration_error") <=> r.comparison["flightTime"].grade = Grade0)

\* C14: in every case of a run, duration_error is raised exactly when the
\* extracted flightTime is present and differs from the ground-truth duration
\* by more than 30 minutes, and for a present flightTime the flag is raised
\* if and only if the flightTime comparison of the case is graded 0.0.
C14_DurationErrorIffGradeZero ==
    \A k \in 1..Len(results) :
        DurationFlagAtBoundary(results[k]) /\ DurationFlagIffWrong(results[k])

\* the first half of C14 alone
C14_FlagAtBoundary == \A k \in 1..Len(results) : DurationFlagAtBoundary(results[k])

\* flagForReview has returned its flags for the case results[1]
Flagged == pc = "flagged" /\ ret.kind = "return"

\* number of the 7 FlightRecord fields that are null, 'null' or absent
NullFields(e) == Cardinality({f \in FieldNames : isNullish(Get(e, f))})

\* C15: low_quality is raised exactly when 3 or more of the 7 extracted
\* FlightRecord fields are null or absent; an absent key counts, a key that
\* is not a FlightRecord field (overallAssessment) does not.
C15_LowQuality ==
    Flagged =>
        (HasFlag(ret.value, "low_quality") <=> NullFields(results[1].extracted) >= 3)

\* the record has the keys of FlightDataSchema and a descriptive assessment
SchemaRecord(e) ==
    /\ DOMAIN e = FieldNames \cup {"overallAssessment"}
    /\ ~isNullish(e["overallAssessment"])

\* C15 restricted to records that have all eight keys
C15_LowQualityOfSchemaRecords ==
    (Flagged /\ SchemaRecord(results[1].extracted))
    => (HasFlag(ret.value, "low_quality") <=> NullFields(results[1].extracted) >= 3)

\* C16: aircraft_missing is raised exactly when the extracted aircraftName
\* is missing (null, absent, empty or 'null') and the extracted flightTime is
\* present; a flightTime that is null, absent, empty or 'null' is not present.
C16_AircraftMissing ==
    Flagged =>
        (HasFlag(ret.value, "aircraft_missing")
            <=> /\ isMissing(Get(results[1].extracted, "aircraftName"))
                /\ ~isMissing(Get(results[1].extracted, "flightTime")))

\* C16 for a flightTime other than the string 'null'
C16_AircraftMissingNoSentinelTime ==
    (Flagged /\ ~IsStr(Get(results[1].extracted, "flightTime"), "null"))
    => (HasFlag(ret.value, "aircraft_missing")
            <=> /\ isMissing(Get(results[1].extracted, "aircraftName"))
                /\ ~isMissing(Get(results[1].extracted, "flightTime")))

\* the aircraftName comparison of the case is graded 0.0 and the extracted
\* aircraftName is a real value
WrongAircraft(r) ==
    /\ r.comparison["aircraftName"].grade = Grade0
    /\ ~isMissing(Get(r.extracted, "aircraftName"))

\* C17: aircraft_mismatch is raised exactly when the aircraftName comparison
\* is graded 0.0 and the extracted aircraftName is a real value, neither
\* null nor missing: a wrong answer is flagged, a missing answer is not.
C17_AircraftMismatch ==
    Flagged => (HasFlag(ret.value, "aircraft_mismatch") <=> WrongAircraft(results[1]))

\* C17 for an aircraftName other than the string 'null'
C17_AircraftMismatchNoSentinel ==
    (Flagged /\ ~IsStr(Get(results[1].extracted, "aircraftName"), "null"))
    => (HasFlag(ret.value, "aircraft_mismatch") <=> WrongAircraft(results[1]))

ReviewFlags == {"aircraft_missing", "aircraft_mismatch", "duration_error", "low_quality"}

\* C18: the flags of a case are a duplicate-free list of names out of
\* aircraft_missing, aircraft_mismatch, duration_error and low_quality
\* (hence zero to four flags).
C18_FlagsAreASubset ==
    Flagged =>
        /\ \A j \in 1..Len(ret.value) : ret.value[j] \in ReviewFlags
        /\ \A j, k \in 1..Len(ret.value) : ret.value[j] = ret.value[k] => j = k
        /\ Len(ret.value) <= 4

\* a case that carries all four flags
C18_Witness ==
    /\ Flagged
    /\ ret.value = <<"aircraft_missing", "aircraft_mismatch", "duration_error", "low_quality">>

\* cases with zero, one, two and three flags
C18_NoFlag == Flagged /\ Len(ret.value) = 0 /\ SchemaRecord(results[1].extracted)
C18_OneFlag == Flagged /\ Len(ret.value) = 1 /\ SchemaRecord(results[1].extracted)
C18_TwoFlags == Flagged /\ Len(ret.value) = 2 /\ SchemaRecord(results[1].extracted)
C18_ThreeFlags == Flagged /\ Len(ret.value) = 3 /\ SchemaRecord(results[1].extracted)
C18_FourFlags == Flagged /\ Len(ret.value) = 4 /\ SchemaRecord(results[1].extracted)

---------------------------------------------------------------------------
(* Properties of the summary statistics (Spec, SpecBatch) *)

\* runEvaluation has computed its summary
Done == pc = "done"

\* at least one of the 7 FlightRecord fields of the case was extracted
HasData(r) ==
    \E f \in FieldNames : Get(r.extracted, f) \notin {JSNull, JSUndefined, JSStr("null")}

\* C19: withData is the number of cases in which at least one extracted
\* FlightRecord field is non-null; a case whose seven fields are all null,
\* such as a failed extraction, is not counted.
C19_WithData ==
    Done => summary.withData = CountTrue([k \in 1..Len(results) |-> HasData(results[k])])

\* sum of the grades of the first n scored fields of the first k cases
RECURSIVE ScoredGradeSum(_, _)
ScoredGradeSum(k, n) ==
    IF k = 0 THEN RatInt(0)
    ELSE IF n = 0 THEN ScoredGradeSum(k - 1, Len(scoredFields))
    ELSE RatAdd(results[k].comparison[scoredFields[n]].grade.v, ScoredGradeSum(k, n - 1))

\* C20: avgGrade is the mean of the grades of the six scored comparisons of
\* all cases; the flightNumber comparison contributes no grade, and the mean
\* of no grade is 0.
C20_AvgGrade ==
    Reported =>
        IF Len(results) = 0 THEN summary.avgGradeRaw = RatInt(0)
        ELSE RatMul(RatInt(Len(results) * Len(scoredFields)), summary.avgGradeRaw)
                = ScoredGradeSum(Len(results), Len(scoredFields))

\* C20 for batches in which every case extracted a flightNumber
C20_AvgGradeWithFlightNumbers ==
    (Reported /\ \A k \in 1..Len(results) :
                    ~isMissing(Get(results[k].extracted, "flightNumber")))
    => IF Len(results) = 0 THEN summary.avgGradeRaw = RatInt(0)
       ELSE RatMul(RatInt(Len(results) * Len(scoredFields)), summary.avgGradeRaw)
               = ScoredGradeSum(Len(results), Len(scoredFields))

---------------------------------------------------------------------------
(* Properties of the runs (Spec, SpecV2) *)

\* C21: every case pushed to the results, the case of a failed extraction
\* included, carries exactly 7 FieldComparisons, one for each of
\* flightNumber, airlineCode, departureAirportCode, arrivalAirportCode,
\* flightDate, aircraftName and flightTime.
C21_SevenComparisons ==
    \A k \in 1..Len(results) :
        /\ DOMAIN results[k].comparison = FieldNames
        /\ \A f \in FieldNames : DOMAIN results[k].comparison[f] = {"match", "grade"}

\* calculateAllMetrics or getSummaryStats has been called
Reduced == metrics # NoCall \/ summary # NoCall

\* C22: in a run, calculateAllMetrics and getSummaryStats are called only
\* when a case exists for every test case, and no case is added once they
\* have been called.
C22_MetricsAfterAllCases ==
    [][ /\ (metrics' # metrics \/ summary' # summary)
            => (i = Len(testDataset) /\ Len(results) = Len(testDataset))
        /\ Reduced => results' = results ]_vars

\* the metrics of a run of two test cases
C22_Witness ==
    /\ Done /\ Reduced
    /\ Len(testDataset) = 2 /\ Len(results) = 2
    /\ metrics["airlineCode"].total = 2
    /\ summary.totalFlights = 2

---------------------------------------------------------------------------
(* Properties of the aircraft families (SpecField) *)

\* an aircraft name: a string that is not a missing value
IsName(x) == x.t = "string" /\ ~isMissing(x)

\* the family groups of the table a name belongs to
GroupsOf(x) == {f \in DOMAIN AIRCRAFT_FAMILIES : Includes(AIRCRAFT_FAMILIES[f], x)}

\* C23: every aircraft name belongs to at most one family group of
\* AIRCRAFT_FAMILIES, and same-family membership, which decides the match
\* of two names, is reflexive, symmetric and transitive.
C23_FamiliesPartitionNames ==
    (Returned /\ field = "aircraftName" /\ IsName(extracted) /\ IsName(groundTruth))
    => /\ Cardinality(GroupsOf(extracted)) <= 1
       /\ (ret = Return(Wrong)) = ~isSameFamily(extracted, groundTruth)
       /\ isSameFamily(extracted, extracted)
       /\ isSameFamily(extracted, groundTruth) = isSameFamily(groundTruth, extracted)
       /\ \A other \in AircraftValues :
             (isSameFamily(extracted, groundTruth) /\ isSameFamily(groundTruth, other))
             => isSameFamily(extracted, other)

\* two different members of the Embraer E170 group
C23_Witness ==
    /\ Returned /\ field = "aircraftName"
    /\ extracted = JSStr("Embraer E175") /\ groundTruth = JSStr("Embraer E170")
    /\ GroupsOf(extracted) = {"Embraer E170"}
    /\ ret = Return(SameFamilyCredit)

---------------------------------------------------------------------------
(* Purity of the comparisons (SpecBatch) *)

\* the case holds the records it was built from, and its comparison and
\* flags are those of an invocation on these records alone
BuiltFromItsArguments(r) ==
    /\ <<r.extracted, r.groundTruth>> \in CasePairs
    /\ Return(r.comparison) = compareAllFields(r.extracted, r.groundTruth)
    /\ Return(r.flags) =
          flagForReview(resultObject(r.extracted, r.groundTruth, r.comparison))

---------------------------------------------------------------------------
(* Agreement of the evaluation variants (SpecField) *)

\* the match verdict of eval.js as a FieldComparison match
VerdictOf(completion) ==
    IF completion.kind = "throw" THEN completion ELSE Return(JSBool(completion.value))

MatchOf(completion) ==
    IF completion.kind = "throw" THEN completion ELSE Return(completion.value.match)

\* C25: for every field and every extracted/ground-truth pair the match
\* verdict of eval.js (compareResults with compareDuration and
\* compareAircraft) is the match verdict of compareField.
C25_VariantsAgree ==
    (Returned /\ field \in FieldNames)
    => MatchOf(ret) = VerdictOf(compareResults(field, extracted, groundTruth))

\* C25 for the four fields compared exactly, with the extracted value present
C25_ExactFieldsAgree ==
    (Returned /\ field \in ExactFields /\ ~isMissing(extracted))
    => MatchOf(ret) = VerdictOf(compareResults(field, extracted, groundTruth))

---------------------------------------------------------------------------
(* Properties of the cases of a run (Spec) *)

\* the flightTime comparison of the case is the tier of the distance between
\* its extracted flightTime and the duration of its test case
GradedAgainstDuration(r) ==
    LET time == Get(r.extracted, "flightTime")
        duration == Get(r.groundTruth, "duration")
    IN (WellFormedTime(time) /\ WellFormedTime(duration))
       => LET d == Abs(MinutesOf(time) - MinutesOf(duration))
          IN /\ (d <= 15 => r.comparison["flightTime"] = Full)
             /\ ((15 < d /\ d <= 30) => r.comparison["flightTime"] = NearCredit)

\* C26: in runEvaluation the flightTime comparison of every case is computed
\* against the duration of the test case: within 15 minutes it is
\* {match: true, grade: 1.0}, within 30 minutes {match: true, grade: 0.7}.
C26_FlightTimeAgainstDuration ==
    \A k \in 1..Len(results) : GradedAgainstDuration(results[k])

\* in runEvaluation every flightTime comparison is {match: false, grade: 0.0}
C26_FlightTimeAlwaysWrong ==
    \A k \in 1..Len(results) : results[k].comparison["flightTime"] = Wrong

\* one case per processed test case, in dataset order
OneCasePerTestCase ==
    /\ Len(results) = i
    /\ \A k \in 1..Len(results) : results[k].groundTruth = testDataset[k]
    /\ Done => Len(results) = Len(testDataset)

\* an iteration appends one case; after a failure its seven fields are null
IterationAddsOneCase ==
    i' = i + 1
    => /\ Len(results') = Len(results) + 1
       /\ SubSeq(results', 1, Len(results)) = results
       /\ ret'.kind = "throw"
            => \A f \in FieldNames : results'[Len(results')].extracted[f] = JSNull

\* C27: after the loop of runEvaluation results holds exactly one case per
\* test case of the dataset, in dataset order, whatever extractions failed;
\* a failed extraction adds one case with all seven extracted fields null.
C27_OneCasePerTestCase ==
    [] OneCasePerTestCase /\ [][IterationAddsOneCase]_vars

\* a run of two test cases of which the first extraction failed
C27_Witness ==
    /\ Done
    /\ testDataset = <<TC_JFK_BOS, TC_LAS_ABQ>>
    /\ Len(results) = 2
    /\ results[1].groundTruth = TC_JFK_BOS /\ results[1].extracted = EX_Failed
    /\ results[2].groundTruth = TC_LAS_ABQ
    /\ results[2].extracted["airlineCode"] = JSStr("WN")

---------------------------------------------------------------------------
(* One notion of a missing value (SpecBatch) *)

\* flagForReview treats the missing aircraftName and flightTime of the case
\* as not present
MissingIsNotFlagged(r) ==
    /\ isMissing(Get(r.extracted, "aircraftName"))
         => ~HasFlag(r.flags, "aircraft_mismatch")
    /\ isMissing(Get(r.extracted, "flightTime"))
         => (~HasFlag(r.flags, "duration_error") /\ ~HasFlag(r.flags, "aircraft_missing"))

\* calculateFieldMetrics counts the values that compareField does not
\* short-circuit as missing
MissingIsNotExtracted ==
    \A f \in ScoredNames :
        metrics[f].extracted =
            CountTrue([k \in 1..Len(results) |-> ~isMissing(Get(results[k].extracted, f))])

\* C28: every value compareField short-circuits as missing (null, undefined,
\* the empty string, the string 'null') is not counted as extracted by
\* calculateFieldMetrics and is not present for flagForReview.
C28_OneNotionOfMissing ==
    /\ \A k \in 1..Len(results) : MissingIsNotFlagged(results[k])
    /\ ReportedScored => MissingIsNotExtracted

\* C28 for batches without an empty string or a 'null' string
C28_NullAndAbsentAgree ==
    (\A k \in 1..Len(results) : \A f \in DOMAIN results[k].extracted :
        results[k].extracted[f] \notin {JSStr(""), JSStr("null")})
    => /\ \A k \in 1..Len(results) : MissingIsNotFlagged(results[k])
       /\ ReportedScored => MissingIsNotExtracted

---------------------------------------------------------------------------
(* Ranges of the metrics (SpecBatch) *)

\* a number of the interval [0, 1]
InUnitInterval(q) == Finite(q) /\ RatLeq(RatInt(0), q) /\ RatLeq(q, RatInt(1))

\* C29: for a batch whose comparisons come from compareAllFields on its
\* extracted records, every scored field has correct <= extracted <= total,
\* so precision, recall and f1 lie in [0, 1], and so does the overall
\* weighted F1.
C29_MetricsInRange ==
    Reported =>
        /\ InUnitInterval(metrics["overall"].weightedF1Raw)
        /\ \A f \in DOMAIN metrics \ {"overall"} :
              /\ 0 <= metrics[f].correct
              /\ metrics[f].correct <= metrics[f].extracted
              /\ metrics[f].extracted <= metrics[f].total
              /\ InUnitInterval(metrics[f].precisionRaw)
              /\ InUnitInterval(metrics[f].recallRaw)
              /\ InUnitInterval(metrics[f].f1Raw)

\* three cases: one without an aircraft name, one with a wrong one, one right
C29_Witness ==
    /\ ReportedScored
    /\ metrics["aircraftName"].total = 3
    /\ metrics["aircraftName"].extracted = 2
    /\ metrics["aircraftName"].correct = 1
    /\ RatLt(RatInt(0), metrics["overall"].weightedF1Raw)
    /\ RatLt(metrics["overall"].weightedF1Raw, RatInt(1))

---------------------------------------------------------------------------
(* Symmetry of compareField (SpecField) *)

\* C30: for aircraftName and flightTime and any two non-missing values a
\* and b, compareField(f, a, b) and compareField(f, b, a) complete alike,
\* with the same match and grade.
C30_SymmetricComparison ==
    (Returned /\ field \in {"aircraftName", "flightTime"}
        /\ ~isMissing(extracted) /\ ~isMissing(groundTruth))
    => ret = compareField(field, groundTruth, extracted)

\* 01:45 against 01:20 and 01:20 against 01:45 are both 25 minutes apart
C30_Witness ==
    /\ Returned /\ field = "flightTime"
    /\ extracted = JSStr("01:45") /\ groundTruth = JSStr("01:20")
    /\ ret = Return(NearCredit)
    /\ compareField("flightTime", JSStr("01:20"), JSStr("01:45")) = Return(NearCredit)

=============================================================================
